---- MODULE Spec2Model ----
(***************************************************************************)
(* Model of gevent's c-ares resolver facade (src/gevent/resolver/ares.py). *)
(*                                                                         *)
(* State: the Resolver object (cares, pid, params, fork_watcher), the      *)
(* event loop's deferred-callback queue, the channel handles ever built,   *)
(* the process id of the running process, and the calling greenlets        *)
(* ("flow"), each running one public operation and suspended on a Waiter  *)
(* between engine calls.                                                   *)
(*                                                                         *)
(* Scheduling is cooperative: a flow runs without interruption from one    *)
(* suspension (waiter.get()) to the next, so one action models the code    *)
(* executed between two suspensions.  The engine (cares.channel), the      *)
(* native resolver and the event loop are external: the engine answers a   *)
(* pending query with any result or error of the kind the query produces,  *)
(* at any time.                                                            *)
(***************************************************************************)
EXTENDS Integers, Sequences, FiniteSets, TLC

\* ------------------------------------------------------------------ bounds
MaxForks == 2
MaxCloses == 2
MaxRecs == 2

\* ----------------------------------------------------- program constants
AF_UNSPEC == 0
AF_INET == 2
AF_INET6 == 10
SOCK_STREAM == 1
SOCK_DGRAM == 2
SOL_TCP == 6
SOL_UDP == 17
AI_NUMERICHOST == 4
EAI_NONAME == -2
HOST_NOT_FOUND == 1
MAX_PORT == 65536
MAX_FLOWINFO == 1048575
NoHandle == 0

\* ------------------------------------------------------- Python values
\* A Python value is [n, t, s]: its integer payload, its type tag and its
\* string payload.
PInt(n) == [n |-> n, t |-> "int", s |-> ""]
PBytes(s) == [n |-> 0, t |-> "bytes", s |-> s]
PText(s) == [n |-> 0, t |-> "text", s |-> s]
PNone == [n |-> 0, t |-> "none", s |-> ""]
POther == [n |-> 0, t |-> "other", s |-> ""]

\* An exception is [exc, code]; NoExc is "no exception".
Exc(kind, code) == [code |-> code, exc |-> kind]
NoExc == Exc("none", 0)

VARIABLES
    cares,        \* Resolver.cares: the stored handle, NoHandle after close()
    pid,          \* Resolver.pid
    params,       \* Resolver.params: the construction-parameter snapshot
    watching,     \* Resolver.fork_watcher is started
    osPid,        \* os.getpid() of the running process
    forkPending,  \* the loop has a fork notification to deliver
    nforks,       \* fork notifications raised so far (bounded by MaxForks)
    ncloses,      \* close() calls made so far (bounded by MaxCloses)
    handles,      \* handle id -> [params, destroyed, enqueued]
    callbacks,    \* hub.loop's deferred-callback queue (handles to destroy)
    PY3,          \* gevent._compat.PY3 of this build
    flow          \* the calling greenlet: its operation and position

resolverVars == <<cares, pid, params, watching, handles, callbacks>>
envVars == <<osPid, forkPending, nforks, ncloses, PY3>>
vars == <<cares, pid, params, watching, osPid, forkPending, nforks, ncloses,
          handles, callbacks, PY3, flow>>

\* ------------------------------------------------------ result values
\* A result value is [kind, by, name, recs, service]:
\*   kind "host":     (name, aliases, recs) of gethostbyname_ex/gethostbyaddr,
\*                    recs the address list;
\*   kind "addrinfo": recs a list of address records;
\*   kind "nameinfo": (name, service), service "None" for None.
\* by is "engine" or "native": who produced it.
Val(kind, by, name, recs, service) ==
    [kind |-> kind, by |-> by, name |-> name, recs |-> recs, service |-> service]
NoVal == Val("none", "", "", <<>>, "")

\* An address record (family, socktype, proto, canonname, sockaddr); sockaddr
\* is (host, port) for AF_INET and (host, port, flowinfo, scopeid) for
\* AF_INET6, each element a Python value.
AddrRec(family, socktype, proto, canon, addr) ==
    [family |-> family, socktype |-> socktype, proto |-> proto,
     canon |-> canon, addr |-> addr]

\* What running a piece of the code ends in: it returns v, raises e, or
\* issues the engine call `call` and suspends on its Waiter.
NoCall == [socktype |-> 0, proto |-> 0, addr |-> <<>>, fn |-> "none",
           stage |-> "none", h |-> NoHandle, host |-> PNone, port |-> PNone,
           fill |-> FALSE]
Return(v) == [v |-> v, k |-> "ret", e |-> NoExc]
Raise(e) == [v |-> NoVal, k |-> "raise", e |-> e]
Suspend(call) == [k |-> "wait", call |-> call]

\* ---------------------------------------------------- the native resolver
\* _socket.gethostbyname_ex and _socket.getaddrinfo, the synchronous system
\* resolver: a function of its arguments.
native_gethostbyname_ex(hostname) ==
    Return(Val("host", "native", hostname.s, <<"127.0.0.1">>, ""))

NativeTypeProto(socktype, proto) ==
    IF socktype # 0
    THEN <<socktype, IF socktype = SOCK_STREAM THEN SOL_TCP ELSE SOL_UDP>>
    ELSE IF proto # 0
    THEN <<IF proto = SOL_TCP THEN SOCK_STREAM ELSE SOCK_DGRAM, proto>>
    ELSE <<SOCK_STREAM, SOL_TCP>>

NativeRec(family, host, port, socktype, proto) ==
    AddrRec(family, NativeTypeProto(socktype, proto)[1],
            NativeTypeProto(socktype, proto)[2], "",
            IF family = AF_INET
            THEN <<PText(host), port>>
            ELSE <<PText(host), port, PInt(0), PInt(0)>>)

native_getaddrinfo(host, port, family, socktype, proto, flags) ==
    CASE host.t \notin {"bytes", "text", "none"} ->
           Raise(Exc("TypeError", 0))
      [] host.t = "none" \/ host.s = "localhost" ->
           Return(Val("addrinfo", "native", "",
                      <<NativeRec(AF_INET6, "::1", port, socktype, proto),
                        NativeRec(AF_INET, "127.0.0.1", port, socktype, proto)>>,
                      ""))
      [] host.s = "ip6-localhost" ->
           Return(Val("addrinfo", "native", "",
                      <<NativeRec(AF_INET6, "::1", port, socktype, proto)>>, ""))
      [] host.s \in {"1.2.3.4", "255.255.255.255"} ->
           Return(Val("addrinfo", "native", "",
                      <<NativeRec(AF_INET, host.s, port, socktype, proto)>>, ""))
      [] OTHER ->
           Raise(Exc("gaierror", EAI_NONAME))

\* ------------------------------------------------- channel lifecycle
\* The keyword arguments a Resolver may be constructed with.
ParamChoices == {"defaults", "custom"}

\* cares_class(hub.loop, **kwargs): a new channel handle built with kwargs.
NewChannel(kwargs) == [params |-> kwargs, destroyed |-> FALSE, enqueued |-> 0]

\* hub.loop.run_callback(h.destroy): h's destroy joins the callback queue.
RunCallbackLater(h) ==
    /\ callbacks' = Append(callbacks, h)
    /\ handles' = [handles EXCEPT ![h].enqueued = @ + 1]

\* Resolver.__init__
ResolverInit ==
    /\ params \in ParamChoices
    /\ handles = <<NewChannel(params)>>
    /\ cares = 1
    /\ osPid = 1
    /\ pid = osPid
    /\ watching = TRUE
    /\ callbacks = <<>>

\* The process forks (changed) or the loop is re-initialised in the same
\* process: the loop has a fork notification for its fork watchers.
ForkNotify(changed) ==
    /\ nforks < MaxForks
    /\ ~forkPending
    /\ nforks' = nforks + 1
    /\ forkPending' = TRUE
    /\ osPid' = IF changed THEN osPid + 1 ELSE osPid
    /\ UNCHANGED <<resolverVars, ncloses, PY3, flow>>

\* _on_fork without the run_callback line: the old handle is dropped, its
\* destroy never scheduled.
OnForkLeak ==
    /\ forkPending
    /\ watching
    /\ forkPending' = FALSE
    /\ IF osPid # pid
       THEN /\ callbacks' = callbacks
            /\ handles' = Append(handles, NewChannel(params))
            /\ cares' = Len(handles) + 1
            /\ pid' = osPid
       ELSE UNCHANGED <<callbacks, handles, cares, pid>>
    /\ UNCHANGED <<params, watching, osPid, nforks, ncloses, PY3, flow>>

\* _on_fork calling self.cares.destroy() itself instead of scheduling it.
OnForkInline ==
    /\ forkPending
    /\ watching
    /\ forkPending' = FALSE
    /\ IF osPid # pid
       THEN /\ callbacks' = callbacks
            /\ handles' = Append([handles EXCEPT ![cares].destroyed = TRUE],
                                 NewChannel(params))
            /\ cares' = Len(handles) + 1
            /\ pid' = osPid
       ELSE UNCHANGED <<callbacks, handles, cares, pid>>
    /\ UNCHANGED <<params, watching, osPid, nforks, ncloses, PY3, flow>>

\* Resolver._on_fork, run by the started fork watcher.
OnFork ==
    /\ forkPending
    /\ watching
    /\ forkPending' = FALSE
    /\ IF osPid # pid
       THEN /\ callbacks' = Append(callbacks, cares)
            /\ handles' = Append([handles EXCEPT ![cares].enqueued = @ + 1],
                                 NewChannel(params))
            /\ cares' = Len(handles) + 1
            /\ pid' = osPid
       ELSE UNCHANGED <<callbacks, handles, cares, pid>>
    /\ UNCHANGED <<params, watching, osPid, nforks, ncloses, PY3, flow>>

\* close() without `self.cares = None`.
CloseKeepsReference ==
    /\ ncloses < MaxCloses
    /\ ncloses' = ncloses + 1
    /\ IF cares # NoHandle
       THEN /\ RunCallbackLater(cares)
            /\ cares' = cares
       ELSE UNCHANGED <<callbacks, handles, cares>>
    /\ watching' = FALSE
    /\ UNCHANGED <<pid, params, osPid, forkPending, nforks, PY3, flow>>

\* Resolver.close
Close ==
    /\ ncloses < MaxCloses
    /\ ncloses' = ncloses + 1
    /\ IF cares # NoHandle
       THEN /\ RunCallbackLater(cares)
            /\ cares' = NoHandle
       ELSE UNCHANGED <<callbacks, handles, cares>>
    /\ watching' = FALSE
    /\ UNCHANGED <<pid, params, osPid, forkPending, nforks, PY3, flow>>

\* The loop runs the oldest deferred callback: a handle's destroy.
RunCallback ==
    /\ callbacks # <<>>
    /\ handles' = [handles EXCEPT ![Head(callbacks)].destroyed = TRUE]
    /\ callbacks' = Tail(callbacks)
    /\ UNCHANGED <<cares, pid, params, watching, envVars, flow>>

\* ------------------------------------------------------------ the engine
\* The address literals the engine's reverse lookup accepts; any other
\* argument makes cares.gethostbyaddr raise InvalidIP at once.
ValidIPs == {"1.2.3.4", "::1"}

SeqsUpTo(S, n) == UNION {[1..k -> S] : k \in 0..n}

\* An engine call made through a reference kept from before the last fork:
\* the query goes to the handle that was replaced.
EngineCallStale(h, call) ==
    IF h = NoHandle
    THEN Raise(Exc("AttributeError", 0))
    ELSE Suspend([call EXCEPT !.h = IF h > 1 THEN h - 1 ELSE h])

\* An engine call through handle h: Python raises AttributeError when h is
\* None, otherwise the query is registered and the caller suspends.
EngineCall(h, call) ==
    IF h = NoHandle
    THEN Raise(Exc("AttributeError", 0))
    ELSE Suspend([call EXCEPT !.h = h])

EnginePort(port) == IF port.t = "none" THEN 0 ELSE port.n

\* The records ares_getaddrinfo may deliver: c-ares fills in neither
\* socktype nor proto.
EngineRecs(call) ==
    {AddrRec(AF_INET, 0, 0, "",
             <<PText("1.2.3.4"), PInt(EnginePort(call.port))>>),
     AddrRec(AF_INET6, 0, 0, "",
             <<PText("fe80::1%lo"), PInt(EnginePort(call.port)), PInt(0), PInt(0)>>)}

\* What the engine may deliver to the Waiter of a pending call.
EngineOutcomes(call) ==
    CASE call.fn = "gethostbyname" ->
           {Return(Val("host", "engine", call.host.s, addrs, "")) :
                addrs \in {<<>>, <<"1.2.3.4">>}}
           \cup {Raise(Exc("herror", c)) : c \in {HOST_NOT_FOUND, 2}}
      [] call.fn = "gethostbyaddr" ->
           {Return(Val("host", "engine", "example.com", <<call.host.s>>, ""))}
           \cup {Raise(Exc("herror", c)) : c \in {HOST_NOT_FOUND, 2}}
      [] call.fn = "getaddrinfo" ->
           {Return(Val("addrinfo", "engine", "", recs, "")) :
                recs \in SeqsUpTo(EngineRecs(call), MaxRecs)}
           \cup {Raise(Exc("gaierror", -3))}
      [] call.fn = "getnameinfo" ->
           {Return(Val("nameinfo", "engine", "example.com", <<>>, service)) :
                service \in {"http", "None"}}
           \cup {Raise(Exc("gaierror", -3))}
      [] OTHER -> {}

\* ------------------------------------------------------ input normalizer
LOCAL_HOSTNAMES == {"localhost", "ip6-localhost"}
\* gethostbyname_ex testing _LOCAL_HOSTNAMES, as _getaddrinfo does.
LocalNamesOnly == LOCAL_HOSTNAMES
LOCAL_AND_BROADCAST_HOSTNAMES ==
    LOCAL_HOSTNAMES \cup {"255.255.255.255", "<broadcast>"}

\* Resolver._hostname_to_bytes
hostname_to_bytes(hostname) ==
    IF hostname.t = "text"
    THEN Return(PBytes(hostname.s))
    ELSE IF hostname.t # "bytes"
    THEN Raise(Exc("TypeError", 0))
    ELSE Return(hostname)

\* The port coercion of Resolver._getaddrinfo: text is ASCII-encoded, the
\* integer 0 becomes None, another integer its decimal digits as bytes.
coerce_port(port) ==
    IF port.t = "text"
    THEN PBytes(port.s)
    ELSE IF port.t = "int"
    THEN IF port.n = 0 THEN PNone
         ELSE [n |-> port.n, t |-> "bytes", s |-> "digits"]
    ELSE port

HasFlag(flags, bit) == (flags \div bit) % 2 = 1

\* ----------------------------------------------------- result normalizer
hard_type_proto(socktype, proto) ==
    IF socktype # 0
    THEN << <<socktype, IF socktype = SOCK_STREAM THEN SOL_TCP ELSE SOL_UDP>> >>
    ELSE IF proto # 0
    THEN << <<IF proto = SOL_TCP THEN SOCK_STREAM ELSE SOCK_DGRAM, proto>> >>
    ELSE << <<SOCK_STREAM, SOL_TCP>>, <<SOCK_DGRAM, SOL_UDP>> >>

\* The comprehension with its two `for` clauses exchanged: all records with
\* the first hard pair, then all with the second.
FillInTypeProtoGrouped(result, socktype, proto) ==
    LET hard == hard_type_proto(socktype, proto)
        n == Len(result)
    IN  [i \in 1..(n * Len(hard)) |->
            LET r == result[((i - 1) % n) + 1]
                hp == hard[((i - 1) \div n) + 1]
            IN  AddrRec(r.family,
                        IF r.socktype = 0 THEN hp[1] ELSE r.socktype,
                        IF r.proto = 0 THEN hp[2] ELSE r.proto,
                        r.canon, r.addr)]

\* The fill_in_type_proto comprehension of Resolver._getaddrinfo: for each
\* record, in order, one output record per hard (type, proto) pair.
FillInTypeProto(result, socktype, proto) ==
    LET hard == hard_type_proto(socktype, proto)
        m == Len(hard)
    IN  [i \in 1..(Len(result) * m) |->
            LET r == result[((i - 1) \div m) + 1]
                hp == hard[((i - 1) % m) + 1]
            IN  AddrRec(r.family,
                        IF r.socktype = 0 THEN hp[1] ELSE r.socktype,
                        IF r.proto = 0 THEN hp[2] ELSE r.proto,
                        r.canon, r.addr)]

\* ------------------------------------------------------- query dispatcher
\* Resolver._getaddrinfo up to its engine call: the native bypass or the
\* query on self.cares.
getaddrinfo_head(stage, host, port, family, socktype, proto, flags, fill) ==
    LET h == IF host.t = "text" THEN PBytes(host.s) ELSE host
    IN  IF h.t # "bytes" \/ HasFlag(flags, AI_NUMERICHOST)
           \/ h.s \in LOCAL_HOSTNAMES
        THEN native_getaddrinfo(h, port, family, socktype, proto, flags)
        ELSE EngineCall(cares,
                 [NoCall EXCEPT !.fn = "getaddrinfo", !.stage = stage,
                                !.host = h, !.port = coerce_port(port),
                                !.socktype = socktype, !.proto = proto,
                                !.fill = fill])

\* _getaddrinfo without the `if not result` test.
getaddrinfo_tail_allow_empty(call, d) ==
    IF d.k = "raise" THEN d
    ELSE IF call.fill
    THEN Return([d.v EXCEPT
                   !.recs = FillInTypeProto(d.v.recs, call.socktype, call.proto)])
    ELSE d

\* Resolver._getaddrinfo from waiter.get() on; d is what the Waiter delivers.
getaddrinfo_tail(call, d) ==
    IF d.k = "raise" THEN d
    ELSE IF d.v.recs = <<>>
    THEN Raise(Exc("gaierror", EAI_NONAME))
    ELSE IF call.fill
    THEN Return([d.v EXCEPT
                   !.recs = FillInTypeProto(d.v.recs, call.socktype, call.proto)])
    ELSE d

\* The arguments of one public operation: gethostbyname_ex(host),
\* getaddrinfo(host, port, 0, socktype, proto, flags), gethostbyaddr(host),
\* getnameinfo(sockaddr, flags); sockaddr is a tuple of Python values when
\* isTuple, and host and port hold sockaddr[0] and sockaddr[1] once
\* getnameinfo has read them.
Args(host, port, socktype, proto, flags, isTuple, sockaddr) ==
    [socktype |-> socktype, proto |-> proto, host |-> host, port |-> port,
     flags |-> flags, isTuple |-> isTuple, sockaddr |-> sockaddr]

Call(fn, stage, host) == [NoCall EXCEPT !.fn = fn, !.stage = stage, !.host = host]

\* error('sockaddr resolved to multiple addresses') and
\* error("IPv4 sockaddr must be 2 tuple")
ErrMultiple == Exc("error", 1)
ErrIPv4Tuple == Exc("error", 2)

\* _getnameinfo testing `not result` instead of `len(result) != 1`.
getnameinfo_after_aux_any(a, v) ==
    IF v.recs = <<>>
    THEN Raise(ErrMultiple)
    ELSE LET rec == v.recs[1]
         IN  IF rec.family = AF_INET /\ Len(a.sockaddr) # 2
             THEN Raise(ErrIPv4Tuple)
             ELSE EngineCall(cares,
                      [Call("getnameinfo", "getnameinfo", a.host) EXCEPT
                          !.addr = IF rec.family = AF_INET6
                                   THEN SubSeq(rec.addr, 1, 2)
                                        \o SubSeq(a.sockaddr, 3, Len(a.sockaddr))
                                   ELSE rec.addr])

\* Resolver._getnameinfo after its _getaddrinfo call returned v.
getnameinfo_after_aux(a, v) ==
    IF Len(v.recs) # 1
    THEN Raise(ErrMultiple)
    ELSE LET rec == v.recs[1]
         IN  IF rec.family = AF_INET /\ Len(a.sockaddr) # 2
             THEN Raise(ErrIPv4Tuple)
             ELSE EngineCall(cares,
                      [Call("getnameinfo", "getnameinfo", a.host) EXCEPT
                          !.addr = IF rec.family = AF_INET6
                                   THEN SubSeq(rec.addr, 1, 2)
                                        \o SubSeq(a.sockaddr, 3, Len(a.sockaddr))
                                   ELSE rec.addr])

\* _getnameinfo without the `service is None and PY3` test: the historical
\* convention on every build.
getnameinfo_finish_py2(d) ==
    IF d.k = "raise" THEN d
    ELSE Return([d.v EXCEPT
                   !.service = IF d.v.service = "None" THEN "0" ELSE d.v.service])

\* Resolver._getnameinfo from the name-info Waiter's delivery d on.
getnameinfo_finish(d) ==
    IF d.k = "raise" THEN d
    ELSE IF d.v.service = "None" /\ PY3
    THEN Raise(Exc("gaierror", EAI_NONAME))
    ELSE Return([d.v EXCEPT
                   !.service = IF d.v.service = "None" THEN "0" ELSE d.v.service])

\* Resolver._gethostbyaddr's InvalidIP handler after its _getaddrinfo call
\* returned v for ip_address.
gethostbyaddr_after_fallback(ip_address, v) ==
    IF v.recs = <<>>
    THEN Raise(Exc("InvalidIP", 0))
    ELSE LET first == v.recs[1].addr[1]
             ip == IF first.t = "text" THEN PBytes(first.s) ELSE first
         IN  IF ip = ip_address
             THEN Raise(Exc("InvalidIP", 0))
             ELSE IF cares = NoHandle
             THEN Raise(Exc("AttributeError", 0))
             ELSE IF ip.s \notin ValidIPs
             THEN Raise(Exc("InvalidIP", 0))
             ELSE EngineCall(cares, Call("gethostbyaddr", "gethostbyaddr2", ip))

\* Resolver._gethostbyaddr up to its first suspension.
gethostbyaddr_head(a) ==
    LET hb == hostname_to_bytes(a.host)
    IN  IF hb.k = "raise" THEN hb
        ELSE IF cares = NoHandle
        THEN Raise(Exc("AttributeError", 0))
        ELSE IF hb.v.s \in ValidIPs
        THEN EngineCall(cares, Call("gethostbyaddr", "gethostbyaddr", hb.v))
        ELSE LET out == getaddrinfo_head("fallback", hb.v, PNone, AF_UNSPEC,
                                         SOCK_DGRAM, 0, 0, TRUE)
             IN  IF out.k = "ret"
                 THEN gethostbyaddr_after_fallback(hb.v, out.v)
                 ELSE out

\* Resolver._getnameinfo up to its first suspension.
getnameinfo_head(a) ==
    LET out == getaddrinfo_head("aux", a.host, a.port, AF_UNSPEC, SOCK_DGRAM,
                                0, 0, FALSE)
    IN  IF out.k = "ret" THEN getnameinfo_after_aux(a, out.v) ELSE out

\* One pass of an operation's `while True` body, from `ares = self.cares`
\* to its first suspension.
Attempt(op, a) ==
    CASE op = "gethostbyname_ex" ->
           EngineCall(cares, Call("gethostbyname", "gethostbyname", a.host))
      [] op = "getaddrinfo" ->
           getaddrinfo_head("getaddrinfo", a.host, a.port, 0, a.socktype,
                            a.proto, a.flags.n, TRUE)
      [] op = "gethostbyaddr" -> gethostbyaddr_head(a)
      [] op = "getnameinfo" -> getnameinfo_head(a)

\* The code that runs when the Waiter of the pending call delivers d, up
\* to the next suspension.
Resume(a, call, d) ==
    CASE call.stage = "gethostbyname" ->
           IF d.k = "raise" THEN d
           ELSE IF d.v.recs = <<>>
           THEN Raise(Exc("herror", EAI_NONAME))
           ELSE d
      [] call.stage = "getaddrinfo" -> getaddrinfo_tail(call, d)
      [] call.stage \in {"gethostbyaddr", "gethostbyaddr2"} -> d
      [] call.stage = "fallback" ->
           LET out == getaddrinfo_tail(call, d)
           IN  IF out.k = "ret"
               THEN gethostbyaddr_after_fallback(call.host, out.v)
               ELSE out
      [] call.stage = "aux" ->
           LET out == getaddrinfo_tail(call, d)
           IN  IF out.k = "ret" THEN getnameinfo_after_aux(a, out.v) ELSE out
      [] call.stage = "getnameinfo" -> getnameinfo_finish(d)

\* The code of an operation before its `while True`: it ends the operation
\* (returns or raises) or enters the loop with the normalized arguments.
EnterLoop(a) == [v |-> a, k |-> "loop"]

gethostbyname_ex_pre(a) ==
    LET hb == hostname_to_bytes(a.host)
    IN  IF hb.k = "raise" THEN hb
        ELSE IF hb.v.s \in LOCAL_AND_BROADCAST_HOSTNAMES
        THEN native_gethostbyname_ex(hb.v)
        ELSE EnterLoop([a EXCEPT !.host = hb.v])

\* getnameinfo without its flowinfo range check.
getnameinfo_pre_no_flowinfo(a) ==
    IF a.flags.t # "int" THEN Raise(Exc("TypeError", 0))
    ELSE IF ~a.isTuple THEN Raise(Exc("TypeError", 0))
    ELSE LET address == hostname_to_bytes(a.sockaddr[1])
             port == a.sockaddr[2]
         IN  IF address.k = "raise" THEN address
             ELSE IF port.t # "int" THEN Raise(Exc("TypeError", 0))
             ELSE EnterLoop([a EXCEPT
                     !.host = address.v,
                     !.port = IF port.n >= MAX_PORT THEN PInt(0) ELSE port])

\* getnameinfo without the `port >= 65536` replacement.
getnameinfo_pre_no_clamp(a) ==
    IF a.flags.t # "int" THEN Raise(Exc("TypeError", 0))
    ELSE IF ~a.isTuple THEN Raise(Exc("TypeError", 0))
    ELSE LET address == hostname_to_bytes(a.sockaddr[1])
             port == a.sockaddr[2]
         IN  IF address.k = "raise" THEN address
             ELSE IF port.t # "int" THEN Raise(Exc("TypeError", 0))
             ELSE IF Len(a.sockaddr) > 2 /\ a.sockaddr[3].n > MAX_FLOWINFO
             THEN Raise(Exc("OverflowError", 0))
             ELSE EnterLoop([a EXCEPT !.host = address.v, !.port = port])

\* Resolver.getnameinfo before its loop.
getnameinfo_pre(a) ==
    IF a.flags.t # "int" THEN Raise(Exc("TypeError", 0))
    ELSE IF ~a.isTuple THEN Raise(Exc("TypeError", 0))
    ELSE LET address == hostname_to_bytes(a.sockaddr[1])
             port == a.sockaddr[2]
         IN  IF address.k = "raise" THEN address
             ELSE IF port.t # "int" THEN Raise(Exc("TypeError", 0))
             ELSE IF Len(a.sockaddr) > 2 /\ a.sockaddr[3].n > MAX_FLOWINFO
             THEN Raise(Exc("OverflowError", 0))
             ELSE EnterLoop([a EXCEPT
                     !.host = address.v,
                     !.port = IF port.n >= MAX_PORT THEN PInt(0) ELSE port])

Pre(op, a) ==
    CASE op = "gethostbyname_ex" -> gethostbyname_ex_pre(a)
      [] op = "getnameinfo" -> getnameinfo_pre(a)
      [] OTHER -> EnterLoop(a)

\* ------------------------------------------- retry-on-invalidation policy
\* The exceptions the `except` clause of each operation's loop catches.
Catches(op, e) ==
    IF op \in {"gethostbyname_ex", "gethostbyaddr"}
    THEN e.exc = "herror"
    ELSE e.exc = "gaierror"

\* The `except` clause with a bare `raise` only.
ReraiseUntranslated(op, e) == e

\* What the `except` clause raises for a caught e when ares is self.cares.
Reraise(op, e) ==
    IF op = "gethostbyname_ex" /\ e.code = HOST_NOT_FOUND
    THEN Exc("gaierror", EAI_NONAME)
    ELSE e

\* The test `ares is self.cares` of the `except` clauses.
SameHandle(ares) == ares = cares

NoArgs == Args(PNone, PNone, 0, 0, PInt(0), FALSE, <<>>)

\* A flow: op and args of its operation; pc is "idle", "wait" (suspended on
\* the Waiter of `call`), "done" or "failed"; ares is the handle the current
\* pass of the loop captured; got is the last delivery of the engine;
\* dispatches counts the passes of the loop and ncalls the engine calls
\* issued; result is what the operation returned or raised; swapped records
\* whether a fork had replaced the captured handle when the operation ended.
IdleFlow ==
    [call |-> NoCall, result |-> Return(NoVal), op |-> "none",
     ares |-> NoHandle, pc |-> "idle", args |-> NoArgs, got |-> Return(NoVal),
     dispatches |-> 0, ncalls |-> 0, swapped |-> FALSE]

Swapped(ares) == ares # NoHandle /\ Len(handles) > ares

Finish(fl, out) ==
    [fl EXCEPT !.pc = IF out.k = "ret" THEN "done" ELSE "failed",
               !.call = NoCall,
               !.result = out,
               !.swapped = Swapped(fl.ares)]

\* The loop after a retry: the new pass captured the current handle, so
\* whatever it raises is raised.
AfterRetry(fl, out) ==
    IF out.k = "wait"
    THEN [fl EXCEPT !.pc = "wait", !.call = out.call, !.ncalls = @ + 1]
    ELSE IF out.k = "raise" /\ Catches(fl.op, out.e)
    THEN Finish(fl, Raise(Reraise(fl.op, out.e)))
    ELSE Finish(fl, out)

\* The loop without the `ares is self.cares` test: every caught error is
\* retried.
RetryLoopNoIdentityTest(fl, out) ==
    IF out.k = "wait"
    THEN [fl EXCEPT !.pc = "wait", !.call = out.call, !.ncalls = @ + 1]
    ELSE IF out.k = "raise" /\ Catches(fl.op, out.e)
    THEN AfterRetry([fl EXCEPT !.ares = cares, !.dispatches = @ + 1],
                    Attempt(fl.op, fl.args))
    ELSE Finish(fl, out)

\* The loop testing `ares is self.cares` on success too: a result that
\* arrives after the handle changed is dropped and the query retried.
RetryLoopStaleSuccess(fl, out) ==
    IF out.k = "wait"
    THEN [fl EXCEPT !.pc = "wait", !.call = out.call, !.ncalls = @ + 1]
    ELSE IF SameHandle(fl.ares)
    THEN AfterRetry(fl, out)
    ELSE IF out.k = "ret" \/ Catches(fl.op, out.e)
    THEN AfterRetry([fl EXCEPT !.ares = cares, !.dispatches = @ + 1],
                    Attempt(fl.op, fl.args))
    ELSE Finish(fl, out)

\* The loop waiting again on the Waiter of the dead query, instead of
\* issuing a new one, when the error is stale.
RetryLoopWaitsAgain(fl, out) ==
    IF out.k = "wait"
    THEN [fl EXCEPT !.pc = "wait", !.call = out.call, !.ncalls = @ + 1]
    ELSE IF out.k = "ret"
    THEN Finish(fl, out)
    ELSE IF Catches(fl.op, out.e)
    THEN IF SameHandle(fl.ares)
         THEN Finish(fl, Raise(Reraise(fl.op, out.e)))
         ELSE [fl EXCEPT !.pc = "wait"]
    ELSE Finish(fl, out)

\* The loop with `ares = self.cares` before the `while True` instead of
\* inside it: a retry keeps the handle the first pass captured.
RetryLoopNoRecapture(fl, out) ==
    IF out.k = "wait"
    THEN [fl EXCEPT !.pc = "wait", !.call = out.call, !.ncalls = @ + 1]
    ELSE IF out.k = "ret"
    THEN Finish(fl, out)
    ELSE IF Catches(fl.op, out.e)
    THEN IF SameHandle(fl.ares)
         THEN Finish(fl, Raise(Reraise(fl.op, out.e)))
         ELSE AfterRetry([fl EXCEPT !.dispatches = @ + 1],
                         Attempt(fl.op, fl.args))
    ELSE Finish(fl, out)

\* The `while True` loop of an operation, given how the current pass ended:
\* suspended, returned, or raised.
RECURSIVE RetryLoop(_, _)
RetryLoop(fl, out) ==
    IF out.k = "wait"
    THEN [fl EXCEPT !.pc = "wait", !.call = out.call, !.ncalls = @ + 1]
    ELSE IF out.k = "ret"
    THEN Finish(fl, out)
    ELSE IF Catches(fl.op, out.e)
    THEN IF SameHandle(fl.ares)
         THEN Finish(fl, Raise(Reraise(fl.op, out.e)))
         ELSE RetryLoop([fl EXCEPT !.ares = cares, !.dispatches = @ + 1],
                        Attempt(fl.op, fl.args))
    ELSE Finish(fl, out)

\* --------------------------------------------------------------- inputs
Names == {"localhost", "ip6-localhost", "255.255.255.255", "<broadcast>",
          "example.com"}

HostArgs(host) == Args(host, PNone, 0, 0, PInt(0), FALSE, <<>>)

Inputs(op) ==
    CASE op = "gethostbyname_ex" ->
           {HostArgs(h) : h \in {PBytes(n) : n \in Names}
                                \cup {PText("localhost"), PText("example.com"),
                                      POther}}
      [] op = "getaddrinfo" ->
           {Args(h, PInt(80), 0, 0, PInt(0), FALSE, <<>>) :
                h \in {PBytes(n) : n \in Names}
                      \cup {PText("localhost"), PNone, POther}}
           \cup {Args(PBytes(n), PInt(80), 0, 0, PInt(AI_NUMERICHOST), FALSE, <<>>) :
                    n \in {"255.255.255.255", "example.com"}}
           \cup {Args(PBytes("example.com"), PInt(0), tp[1], tp[2], PInt(0),
                      FALSE, <<>>) :
                    tp \in {<<SOCK_STREAM, 0>>, <<0, SOL_UDP>>}}
      [] op = "gethostbyaddr" ->
           {HostArgs(h) : h \in {PBytes("1.2.3.4"), PText("1.2.3.4"),
                                 PBytes("example.com"), PBytes("fe80::1%lo"),
                                 POther}}
      [] op = "getnameinfo" ->
           {Args(PNone, PNone, 0, 0, f, FALSE, <<>>) : f \in {PInt(0), POther}}
           \cup {Args(PNone, PNone, 0, 0, PInt(0), TRUE, sa) :
                   sa \in {<<POther, PInt(80)>>,
                           <<PBytes("example.com"), PText("80")>>,
                           <<PBytes("example.com"), PInt(80), PInt(MAX_FLOWINFO + 1)>>,
                           <<PBytes("example.com"), PInt(80)>>,
                           <<PText("example.com"), PInt(70000)>>,
                           <<PBytes("example.com"), PInt(80), PInt(MAX_FLOWINFO)>>,
                           <<PBytes("example.com"), PInt(80), PInt(7), PInt(3)>>,
                           <<PBytes("localhost"), PInt(80)>>,
                           <<PBytes("ip6-localhost"), PInt(80), PInt(7), PInt(3)>>}}

Ops == {"gethostbyname_ex", "getaddrinfo", "gethostbyaddr", "getnameinfo"}

\* ------------------------------------------------------------- the flow
\* A greenlet calls a public operation: the code runs to its first
\* suspension, or to the end when it never suspends.
Started(op, a) ==
    LET fl == [IdleFlow EXCEPT !.op = op, !.args = a]
        pre == Pre(op, a)
    IN  IF pre.k = "loop"
        THEN RetryLoop([fl EXCEPT !.args = pre.v, !.ares = cares,
                                  !.dispatches = 1],
                       Attempt(op, pre.v))
        ELSE Finish(fl, pre)

Start(op, a) ==
    /\ flow.pc = "idle"
    /\ flow' = Started(op, a)
    /\ UNCHANGED <<resolverVars, envVars>>

\* The engine signals the Waiter the flow is suspended on with d: the flow
\* resumes and runs to its next suspension or to the end.
Resumed(d) ==
    /\ flow.pc = "wait"
    /\ flow' = RetryLoop([flow EXCEPT !.got = d],
                         Resume(flow.args, flow.call, d))
    /\ UNCHANGED <<resolverVars, envVars>>

Deliver(d) ==
    /\ d \in EngineOutcomes(flow.call)
    /\ Resumed(d)

Init ==
    /\ ResolverInit
    /\ forkPending = FALSE
    /\ nforks = 0
    /\ ncloses = 0
    /\ PY3 \in BOOLEAN
    /\ flow = IdleFlow

Next ==
    \/ \E changed \in BOOLEAN : ForkNotify(changed)
    \/ OnFork
    \/ Close
    \/ RunCallback
    \/ \E op \in Ops : \E a \in Inputs(op) : Start(op, a)
    \/ \E d \in EngineOutcomes(flow.call) : Deliver(d)

Spec == Init /\ [][Next]_vars

\* The engine signals every Waiter it was handed: a pending query is
\* eventually answered.
\* The arguments that take each operation to the engine: the calls whose
\* loop can go round.
EngineInputs(op) ==
    CASE op = "gethostbyname_ex" -> {HostArgs(PBytes("example.com"))}
      [] op = "getaddrinfo" ->
           {Args(PBytes("example.com"), PInt(80), 0, 0, PInt(0), FALSE, <<>>)}
      [] op = "gethostbyaddr" ->
           {HostArgs(PBytes("1.2.3.4")), HostArgs(PBytes("fe80::1%lo"))}
      [] op = "getnameinfo" ->
           {Args(PNone, PNone, 0, 0, PInt(0), TRUE, sa) :
               sa \in {<<PBytes("example.com"), PInt(80)>>,
                       <<PBytes("localhost"), PInt(80)>>}}

NextLive ==
    \/ \E changed \in BOOLEAN : ForkNotify(changed)
    \/ OnFork
    \/ Close
    \/ RunCallback
    \/ \E op \in Ops : \E a \in EngineInputs(op) : Start(op, a)
    \/ \E d \in EngineOutcomes(flow.call) : Deliver(d)

\* A Resolver constructed with no keyword arguments.
InitLive == Init /\ params = "defaults"

SpecLive ==
    /\ InitLive
    /\ [][NextLive]_vars
    /\ WF_vars(\E d \in EngineOutcomes(flow.call) : Deliver(d))


\* ----------------------------------------- the result normalizer alone
\* getaddrinfo's type/protocol backfill over every shape of engine record:
\* a getaddrinfo call for each (socktype, proto) is pending on the first
\* handle, and the engine delivers records that may carry a socket type or
\* a protocol.
TypeChoices == {0, SOCK_STREAM, SOCK_DGRAM}
ProtoChoices == {0, SOL_TCP, SOL_UDP}

FillRecs ==
    {AddrRec(AF_INET, t, p, "", <<PText("1.2.3.4"), PInt(80)>>) :
        t \in TypeChoices, p \in ProtoChoices}
    \cup {AddrRec(AF_INET6, t, p, "example.com",
                  <<PText("::1"), PInt(80), PInt(0), PInt(0)>>) :
        t \in TypeChoices, p \in ProtoChoices}

InitFill ==
    /\ ResolverInit
    /\ forkPending = FALSE
    /\ nforks = 0
    /\ ncloses = 0
    /\ PY3 \in BOOLEAN
    /\ \E t \in TypeChoices, p \in ProtoChoices :
          flow = Started("getaddrinfo",
                         Args(PBytes("example.com"), PInt(80), t, p, PInt(0),
                              FALSE, <<>>))

DeliverRecs(recs) == Resumed(Return(Val("addrinfo", "engine", "", recs, "")))

NextFill ==
    /\ flow.pc = "wait"
    /\ \E recs \in SeqsUpTo(FillRecs, MaxRecs) : DeliverRecs(recs)

SpecFill == InitFill /\ [][NextFill]_vars


\* ------------------------------------------------------------ properties
FinalStages == {"gethostbyname", "getaddrinfo", "gethostbyaddr",
                "gethostbyaddr2", "getnameinfo"}

\* The flow took a step out of a suspension: its Waiter was signalled.
Resumes == flow.pc = "wait" /\ flow' # flow

\* C1: a stale error is never raised: no operation ends by raising the
\* error the engine delivered to an attempt whose captured handle a fork
\* had replaced by then (it retries against the new handle instead).
StaleErrorNeverRaised ==
    ~(/\ flow.pc = "failed"
      /\ flow.swapped
      /\ flow.got.k = "raise"
      /\ flow.result.e \in {flow.got.e, Reraise(flow.op, flow.got.e)})

\* C2: when an attempt ends in an error and the Resolver's handle is the one
\* the attempt captured, the operation fails: it does not go round the loop
\* again, and when the error is the engine's it is raised to the caller with
\* no further engine call.
GenuineFailureNotRetried ==
    [][(Resumes /\ SameHandle(flow.ares)) =>
          /\ flow'.dispatches = flow.dispatches
          /\ flow'.got.k = "raise" =>
                /\ flow'.pc = "failed"
                /\ flow'.result.k = "raise"
                /\ flow'.ncalls = flow.ncalls]_vars

GenuineFailureWitness ==
    /\ flow.pc = "failed"
    /\ flow.got.k = "raise"
    /\ flow.dispatches = 2
    /\ flow.ares = cares
    /\ ~flow.swapped
    /\ flow.result.e = flow.got.e

\* The results the code accepts from the last query of an attempt: a
\* non-empty address list, a non-empty record list, a service unless the
\* build is Python 2.
Accepted(call, d) ==
    CASE call.fn \in {"gethostbyname", "getaddrinfo"} -> d.v.recs # <<>>
      [] call.fn = "getnameinfo" -> ~(d.v.service = "None" /\ PY3)
      [] OTHER -> TRUE

\* C3 as stated: whenever the engine delivers a result (not an error) to the
\* last query of an operation, the operation returns and does not retry.
SuccessAlwaysReturned ==
    [][(Resumes /\ flow.call.stage \in FinalStages /\ flow'.got.k = "ret") =>
          flow'.pc = "done" /\ flow'.dispatches = flow.dispatches]_vars

\* C3 amended: a delivered result the code accepts is returned (for
\* getaddrinfo after the type/protocol backfill) without another pass of the
\* loop, whether or not the handle was replaced meanwhile; a delivered
\* result it does not accept (empty, or no service on Python 3) is never
\* returned.
AcceptedSuccessReturned ==
    [][(Resumes /\ flow.call.stage \in FinalStages /\ flow'.got.k = "ret") =>
          IF Accepted(flow.call, flow'.got)
          THEN /\ flow'.pc = "done"
               /\ flow'.dispatches = flow.dispatches
               /\ flow'.ncalls = flow.ncalls
               /\ flow'.result = Resume(flow.args, flow.call, flow'.got)
          ELSE flow'.pc # "done"]_vars

StaleSuccessWitness ==
    /\ flow.pc = "done"
    /\ flow.got.k = "ret"
    /\ flow.swapped
    /\ flow.dispatches = 1

\* The handles built and not yet destroyed.
Live == {h \in 1..Len(handles) : ~handles[h].destroyed}

\* C4 as stated: at most one handle is live (built, destroy not yet run).
AtMostOneLiveHandle == Cardinality(Live) <= 1

\* C4 amended: at most one handle is live with no destruction scheduled, and
\* it is the stored one (none after close()); the stored reference changes
\* only to a handle built in that step or to absent, and a handle's
\* parameters never change.
OneCurrentHandle ==
    /\ [](/\ {h \in Live : handles[h].enqueued = 0}
             = IF cares = NoHandle THEN {} ELSE {cares}
          /\ \A h \in 1..Len(handles) : handles[h].params = params)
    /\ [][cares' # cares =>
             \/ cares' = NoHandle
             \/ /\ cares' = Len(handles) + 1
                /\ Len(handles') = cares'
                /\ handles'[cares'] = NewChannel(params)]_vars

TwoLiveHandlesWitness ==
    /\ Cardinality(Live) = 2
    /\ cares = 2
    /\ handles[1].enqueued = 1

\* C5: a destroy runs only as the callback at the head of the loop's queue,
\* never in _on_fork or close(); a fork notification with a changed pid
\* queues the old handle's destroy, stores a new handle built from
\* self.params, and sets self.pid to the live pid.
DestroyOnlyDeferred ==
    [][/\ \A h \in 1..Len(handles) :
             (handles'[h].destroyed /\ ~handles[h].destroyed) =>
                 /\ callbacks # <<>>
                 /\ h = Head(callbacks)
                 /\ callbacks' = Tail(callbacks)
                 /\ cares' = cares
       /\ (forkPending /\ ~forkPending' /\ osPid # pid) =>
             /\ callbacks' = Append(callbacks, cares)
             /\ cares' = Len(handles) + 1
             /\ handles'[cares'] = NewChannel(params)
             /\ params' = params
             /\ pid' = osPid'
             /\ osPid' = osPid
       /\ (cares' = NoHandle /\ cares # NoHandle) =>
             callbacks' = Append(callbacks, cares)]_vars

ForkSwapWitness ==
    /\ cares = 2
    /\ callbacks = <<1>>
    /\ ~handles[1].destroyed
    /\ pid = osPid
    /\ pid # 1
    /\ flow.pc = "wait"


\* C6: close() is idempotent and nothing is destroyed twice: no handle's
\* destroy is ever scheduled more than once, and a close() that finds the
\* handle absent schedules nothing and leaves it absent.
CloseIdempotent ==
    /\ [](\A h \in 1..Len(handles) : handles[h].enqueued <= 1)
    /\ [][(ncloses' > ncloses /\ cares = NoHandle) =>
             /\ callbacks' = callbacks
             /\ handles' = handles
             /\ cares' = NoHandle]_vars

SecondCloseWitness ==
    /\ ncloses = 2
    /\ cares = NoHandle
    /\ Len(handles) = 2
    /\ \A h \in 1..Len(handles) : handles[h].enqueued = 1

BroadcastNames == {"255.255.255.255", "<broadcast>"}
LocalNames == {"localhost", "ip6-localhost"}
IsName(host) == host.t \in {"bytes", "text"}

\* The native resolver's answer to the operation the flow runs.
NativeAnswer ==
    IF flow.op = "gethostbyname_ex"
    THEN native_gethostbyname_ex(PBytes(flow.args.host.s))
    ELSE native_getaddrinfo(PBytes(flow.args.host.s), flow.args.port, 0,
                            flow.args.socktype, flow.args.proto,
                            flow.args.flags.n)

\* C7 as stated: gethostbyname_ex and getaddrinfo answer the local names,
\* and getaddrinfo the broadcast names too, from the native resolver,
\* without an engine call.
BypassAsStated ==
    (/\ flow.pc # "idle"
     /\ IsName(flow.args.host)
     /\ \/ /\ flow.op \in {"gethostbyname_ex", "getaddrinfo"}
           /\ flow.args.host.s \in LocalNames
        \/ /\ flow.op = "getaddrinfo"
           /\ flow.args.host.s \in BroadcastNames)
    => /\ flow.pc = "done"
       /\ flow.ncalls = 0
       /\ flow.result = NativeAnswer

\* C7 amended: gethostbyname_ex answers the local and the broadcast names,
\* and getaddrinfo the local names only, with exactly the native resolver's
\* result and no engine call; getaddrinfo sends a broadcast name to the
\* engine like any other name (unless AI_NUMERICHOST is set).
BypassAsCoded ==
    /\ (/\ flow.pc # "idle"
        /\ IsName(flow.args.host)
        /\ \/ /\ flow.op = "gethostbyname_ex"
              /\ flow.args.host.s \in LocalNames \cup BroadcastNames
           \/ /\ flow.op = "getaddrinfo"
              /\ flow.args.host.s \in LocalNames)
       => /\ flow.pc = "done"
          /\ flow.ncalls = 0
          /\ flow.result = NativeAnswer
    /\ (/\ flow.pc = "done"
        /\ flow.op = "getaddrinfo"
        /\ flow.args.host.t = "bytes"
        /\ flow.args.host.s \in BroadcastNames
        /\ flow.args.flags.n = 0)
       => /\ flow.ncalls >= 1
          /\ flow.result.v.by = "engine"

BroadcastBypassWitness ==
    /\ flow.op = "gethostbyname_ex"
    /\ flow.args.host = PBytes("<broadcast>")
    /\ flow.pc = "done"
    /\ cares = NoHandle

\* The engine's last delivery answered getnameinfo's address-info lookup.
AuxDelivered ==
    /\ flow.op = "getnameinfo"
    /\ flow.got.k = "ret"
    /\ flow.got.v.kind = "addrinfo"

\* C8 as stated: an address-info lookup with zero or several records makes
\* getnameinfo raise 'sockaddr resolved to multiple addresses'.
AmbiguousAsStated ==
    (AuxDelivered /\ Len(flow.got.v.recs) # 1)
    => flow.pc = "failed" /\ flow.result.e = ErrMultiple

\* C8 amended: with several records getnameinfo raises 'sockaddr resolved
\* to multiple addresses'; with none the attempt ends in gaierror(EAI_NONAME),
\* raised when the handle is unchanged and retried when it changed; in both
\* cases the attempt returns nothing and issues no name-info query.
AmbiguousAsCoded ==
    (AuxDelivered /\ Len(flow.got.v.recs) # 1)
    => /\ flow.pc # "done"
       /\ flow.call.fn # "getnameinfo"
       /\ Len(flow.got.v.recs) > 1 =>
             flow.pc = "failed" /\ flow.result.e = ErrMultiple
       /\ flow.got.v.recs = <<>> =>
             \/ /\ flow.pc = "failed"
                /\ flow.result.e = Exc("gaierror", EAI_NONAME)
                /\ flow.ares # NoHandle
             \/ /\ flow.dispatches > 1
                /\ \/ flow.pc = "wait" /\ flow.call.stage = "aux"
                   \/ /\ flow.pc = "failed"
                      /\ flow.ares = NoHandle
                      /\ flow.result.e = Exc("AttributeError", 0)

NoRecordsWitness ==
    /\ AuxDelivered
    /\ flow.got.v.recs = <<>>
    /\ flow.pc = "failed"
    /\ flow.result.e = Exc("gaierror", EAI_NONAME)

\* The arguments of the flow's operation are of a wrong type, or carry a
\* flow-info above 0xFFFFF.
BadArguments ==
    CASE flow.op \in {"gethostbyname_ex", "gethostbyaddr"} ->
           ~IsName(flow.args.host)
      [] flow.op = "getaddrinfo" ->
           flow.args.host.t = "other"
      [] flow.op = "getnameinfo" ->
           \/ flow.args.flags.t # "int"
           \/ ~flow.args.isTuple
           \/ ~IsName(flow.args.sockaddr[1])
           \/ flow.args.sockaddr[2].t # "int"
           \/ /\ Len(flow.args.sockaddr) > 2
              /\ flow.args.sockaddr[3].n > MAX_FLOWINFO
      [] OTHER -> FALSE

InputErrors == {Exc("TypeError", 0), Exc("OverflowError", 0), ErrIPv4Tuple}

\* C9 as stated: an operation that raises an input error (TypeError,
\* OverflowError, 'IPv4 sockaddr must be 2 tuple') has issued no engine call.
InputErrorsBeforeAnyCall ==
    (flow.pc = "failed" /\ flow.result.e \in InputErrors) => flow.ncalls = 0

\* C9 amended: wrong argument types and an out-of-range flow-info are raised
\* before any engine call, in the first pass at the latest; 'IPv4 sockaddr
\* must be 2 tuple' is raised only once the address-info lookup has
\* returned, before any name-info query of that attempt.
InputErrorsAsCoded ==
    /\ (flow.pc # "idle" /\ BadArguments)
       => /\ flow.pc = "failed"
          /\ flow.result.e \in {Exc("TypeError", 0), Exc("OverflowError", 0)}
          /\ flow.ncalls = 0
          /\ flow.dispatches <= 1
    /\ (flow.pc = "failed" /\ flow.result.e = ErrIPv4Tuple)
       => /\ AuxDelivered
          /\ Len(flow.got.v.recs) = 1
          /\ flow.ncalls >= 1

LateTupleErrorWitness ==
    /\ flow.pc = "failed"
    /\ flow.result.e = ErrIPv4Tuple
    /\ flow.ncalls = 1
    /\ flow.dispatches = 1

\* C10: getaddrinfo with socktype = 0 and proto = 0 returns two records per
\* engine record, in engine order; an engine record without socket type and
\* protocol gives (SOCK_STREAM, SOL_TCP) then (SOCK_DGRAM, SOL_UDP), equal in
\* family, canonical name and address; equal engine records are all kept.
ExpandsToStreamAndDatagram ==
    (/\ flow.op = "getaddrinfo"
     /\ flow.pc = "done"
     /\ flow.ncalls > 0
     /\ flow.args.socktype = 0
     /\ flow.args.proto = 0)
    => LET in == flow.got.v.recs
           out == flow.result.v.recs
       IN  /\ Len(out) = 2 * Len(in)
           /\ \A i \in 1..Len(in) :
                 (in[i].socktype = 0 /\ in[i].proto = 0) =>
                    /\ out[2 * i - 1] = [in[i] EXCEPT !.socktype = SOCK_STREAM,
                                                      !.proto = SOL_TCP]
                    /\ out[2 * i] = [in[i] EXCEPT !.socktype = SOCK_DGRAM,
                                                  !.proto = SOL_UDP]

ExpansionWitness ==
    /\ flow.op = "getaddrinfo"
    /\ flow.pc = "done"
    /\ flow.args.socktype = 0
    /\ flow.args.proto = 0
    /\ Len(flow.got.v.recs) = 2
    /\ flow.got.v.recs[1] = flow.got.v.recs[2]
    /\ flow.got.v.recs[1].socktype = 0
    /\ flow.got.v.recs[1].proto = 0
    /\ Len(flow.result.v.recs) = 4

\* C11: getaddrinfo with a socket type or a protocol requested makes one
\* output record per engine record, and every record the engine delivered
\* with neither type nor protocol carries the requested socket type (when one
\* was requested) and the requested protocol (when one was requested), for
\* every combination of requested values.
RequestedPairFills ==
    (/\ flow.op = "getaddrinfo"
     /\ flow.pc = "done"
     /\ flow.ncalls > 0
     /\ (flow.args.socktype # 0 \/ flow.args.proto # 0))
    => LET in == flow.got.v.recs
           out == flow.result.v.recs
       IN  /\ Len(out) = Len(in)
           /\ \A i \in 1..Len(in) :
                 (in[i].socktype = 0 /\ in[i].proto = 0) =>
                    /\ flow.args.socktype # 0 =>
                          out[i].socktype = flow.args.socktype
                    /\ flow.args.proto # 0 =>
                          out[i].proto = flow.args.proto

\* C12: when the name-info query of getnameinfo completes with no service,
\* a Python 3 build raises gaierror(EAI_NONAME) and returns nothing (the
\* caller gets that error; only when a fork replaced the handle meanwhile
\* does the loop catch it and go round again), and a Python 2 build returns
\* (node, '0'); a service that is present is returned unchanged with its
\* node.
NoServiceCompletion ==
    [][(Resumes /\ flow.call.stage = "getnameinfo" /\ flow'.got.k = "ret") =>
          LET d == flow'.got
          IN  IF d.v.service # "None"
              THEN flow'.pc = "done" /\ flow'.result = d
              ELSE IF ~PY3
              THEN /\ flow'.pc = "done"
                   /\ flow'.result.k = "ret"
                   /\ flow'.result.v.name = d.v.name
                   /\ flow'.result.v.service = "0"
              ELSE /\ flow'.pc # "done"
                   /\ IF SameHandle(flow.ares)
                      THEN /\ flow'.pc = "failed"
                           /\ flow'.result = Raise(Exc("gaierror", EAI_NONAME))
                      ELSE flow'.dispatches = flow.dispatches + 1]_vars

NoServiceWitness ==
    /\ PY3
    /\ flow.op = "getnameinfo"
    /\ flow.pc = "failed"
    /\ flow.got.k = "ret"
    /\ flow.got.v.kind = "nameinfo"
    /\ flow.got.v.service = "None"
    /\ flow.result = Raise(Exc("gaierror", EAI_NONAME))

\* C13: getnameinfo with an integer port >= 65536 raises no error because of
\* the port: it enters its loop with the port replaced by 0, and the
\* address-info lookup is handed no port at all (None); a port below 65536
\* goes on unchanged (as its digits, 0 as None).  No engine call carries a
\* port of 65536 or more.
PortClamped ==
    (flow.op = "getnameinfo" /\ flow.pc # "idle" /\ ~BadArguments) =>
       LET port == flow.args.sockaddr[2]
       IN  /\ flow.dispatches >= 1
           /\ flow.args.port = IF port.n >= MAX_PORT THEN PInt(0) ELSE port
           /\ flow.call.fn = "getaddrinfo" =>
                 /\ port.n >= MAX_PORT => flow.call.port = PNone
                 /\ port.n < MAX_PORT =>
                       /\ flow.call.port.n = port.n
                       /\ flow.call.port.t = IF port.n = 0 THEN "none" ELSE "bytes"
           /\ flow.call.port.n < MAX_PORT
           /\ flow.call.fn = "getnameinfo" => flow.call.addr[2].n < MAX_PORT

PortClampedWitness ==
    /\ flow.op = "getnameinfo"
    /\ flow.args.isTuple
    /\ flow.args.sockaddr[2] = PInt(70000)
    /\ flow.pc = "wait"
    /\ flow.call.fn = "getaddrinfo"
    /\ flow.call.port = PNone
    /\ flow.args.port = PInt(0)

\* C14: getaddrinfo never returns an empty list.  An empty list delivered by
\* the engine is never returned: _getaddrinfo turns it into
\* gaierror(EAI_NONAME), which the caller gets (only when a fork replaced the
\* handle meanwhile does the loop catch it and go round again).
NeverEmptyList ==
    /\ []((flow.op = "getaddrinfo" /\ flow.pc = "done") =>
             /\ flow.result.k = "ret"
             /\ flow.result.v.recs # <<>>)
    /\ [][(/\ Resumes
           /\ flow.op = "getaddrinfo"
           /\ flow'.got.k = "ret"
           /\ flow'.got.v.recs = <<>>) =>
             /\ flow'.pc # "done"
             /\ IF SameHandle(flow.ares)
                THEN /\ flow'.pc = "failed"
                     /\ flow'.result = Raise(Exc("gaierror", EAI_NONAME))
                ELSE flow'.dispatches = flow.dispatches + 1]_vars

EmptyListWitness ==
    /\ flow.op = "getaddrinfo"
    /\ flow.pc = "failed"
    /\ flow.got.k = "ret"
    /\ flow.got.v.kind = "addrinfo"
    /\ flow.got.v.recs = <<>>
    /\ flow.result = Raise(Exc("gaierror", EAI_NONAME))

\* C15 as stated: the handle is never replaced while the flow is between
\* capturing it and resuming from its Waiter: no newer handle has been built
\* since a suspended flow captured its own.
HandleFixedInWindow == flow.pc = "wait" => ~Swapped(flow.ares)

\* C15 amended: the reference changes only in steps of the loop (_on_fork,
\* close) in which the flow does not run, so never between a pass's
\* `ares = self.cares` and its suspension: every pass of the loop captures
\* the handle stored at that moment and leaves it as it is.  It may change
\* while the flow is suspended; the captured handle then differs from the
\* stored one, which is what the `ares is self.cares` test sees.
HandleChangesOnlyWhileSuspended ==
    /\ [][cares' # cares => flow' = flow]_vars
    /\ [][flow'.dispatches # flow.dispatches =>
             /\ flow'.dispatches = flow.dispatches + 1
             /\ cares' = cares
             /\ flow'.ares = cares]_vars
    /\ []((flow.pc = "wait" /\ flow.ares # cares) =>
             (Swapped(flow.ares) \/ cares = NoHandle))

ChangedWhileSuspendedWitness ==
    /\ flow.pc = "wait"
    /\ flow.dispatches = 2
    /\ flow.ares = 2
    /\ cares = 3

\* C16: gethostbyname_ex with the handle unchanged since dispatch: the
\* engine's herror with code 1 is raised as gaierror(EAI_NONAME); every
\* other herror is raised as it is, the herror(EAI_NONAME) made for an empty
\* address list included.
HostErrorTranslation ==
    [][(Resumes /\ flow.op = "gethostbyname_ex" /\ SameHandle(flow.ares)) =>
          LET d == flow'.got
          IN  /\ (d.k = "raise" /\ d.e = Exc("herror", HOST_NOT_FOUND)) =>
                    /\ flow'.pc = "failed"
                    /\ flow'.result = Raise(Exc("gaierror", EAI_NONAME))
              /\ (d.k = "raise" /\ d.e.exc = "herror"
                                /\ d.e.code # HOST_NOT_FOUND) =>
                    /\ flow'.pc = "failed"
                    /\ flow'.result = Raise(d.e)
              /\ (d.k = "ret" /\ d.v.recs = <<>>) =>
                    /\ flow'.pc = "failed"
                    /\ flow'.result = Raise(Exc("herror", EAI_NONAME))]_vars

HostNotFoundWitness ==
    /\ flow.op = "gethostbyname_ex"
    /\ flow.pc = "failed"
    /\ ~flow.swapped
    /\ flow.ares = cares
    /\ flow.got = Raise(Exc("herror", HOST_NOT_FOUND))
    /\ flow.result = Raise(Exc("gaierror", EAI_NONAME))

RetryOnLiveHandle ==
    [][(flow'.dispatches > flow.dispatches /\ flow.dispatches >= 1) =>
          /\ cares # NoHandle
          /\ ~handles[cares].destroyed
          /\ handles[cares].enqueued = 0
          /\ flow'.ncalls > flow.ncalls]_vars

\* C19: every engine call is issued on the handle the Resolver stores at
\* that moment, which is neither destroyed nor scheduled for destruction.
CallsGoToCurrentHandle ==
    [][flow'.ncalls > flow.ncalls =>
          /\ flow'.ncalls = flow.ncalls + 1
          /\ flow'.pc = "wait"
          /\ cares # NoHandle
          /\ flow'.call.h = cares
          /\ cares' = cares
          /\ handles' = handles
          /\ ~handles[cares].destroyed
          /\ handles[cares].enqueued = 0]_vars

CallAfterSwapWitness ==
    /\ flow.pc = "wait"
    /\ flow.dispatches = 2
    /\ flow.call.h = 2
    /\ cares = 2
    /\ handles[1].enqueued = 1
    /\ ~handles[1].destroyed

\* C20: an error the engine delivers to a query that was issued on the
\* handle that is still the stored one is never retried.
CurrentHandleErrorNotRetried ==
    [][(Resumes /\ flow'.got.k = "raise" /\ flow.call.h = cares) =>
          flow'.dispatches = flow.dispatches]_vars

====
